---- MODULE Spec2Model ----
(***************************************************************************)
(* Model of the streaming acoustic-analysis pipeline of src/src/App.tsx    *)
(* (the App component that starts at line 1243): the model-loading effect, *)
(* startListening, the onaudioprocess callback, processAudioChunk and      *)
(* stopListening.                                                          *)
(*                                                                         *)
(* Samples are not stored one by one.  A Float32Array is modelled as a     *)
(* sequence of runs [lo, hi, amp]: the samples number lo..hi of the        *)
(* session's input stream, all of amplitude amp.  Amplitudes are in        *)
(* thousandths (0.01 is 10), classifier scores in hundredths (0.2 is 20).  *)
(* A quotient of the finalizations is kept as <<numerator, denominator>>.  *)
(*                                                                         *)
(* An async function is one action per await.  generateSummary has no      *)
(* await that leaves the component, so its result is set in the step of    *)
(* stopListening; isGeneratingSummary, canvasRef and animationFrameRef     *)
(* (never assigned a frame) take no part in the pipeline and are left out. *)
(* The timestamp of a detection is the number of the completion that made  *)
(* it, its id the triple <<session, frame, rank in the batch>>.            *)
(***************************************************************************)
EXTENDS Integers, Sequences, FiniteSets, TLC

\* ---- program constants ----
FrameLen == 15600
TopK == 5
HistoryCap == 20
ScoreThreshold == 20
SnapshotCap == 50
SoundThreshold == 10
SilenceThreshold == 10
DisplayBins == 128
BufferSize == 4096
\* README: "Only shows detections above 30% confidence"
DocConfidence == 30

\* ---- bounds of the model ----
MaxBursts == 2
MaxAudioBursts == 4
MaxFrames == 5
MaxStarts == 2
MaxInFlight == 2
MaxTime == 1
NumClasses == 7
NumBins == 2
MaxSnapBursts == 52
MaxSpectrumBursts == 4
MaxStatFrames == 3
MaxFloorFrames == 11
MaxShortBursts == 4
MaxScenarioFrames == 5
MaxResetBursts == 2
MaxQuietBursts == 4
MaxConstantFrames == 3
\* the bits of the significand of a number (53 in the program)
Precision == 8

\* ---- inputs ----
BurstLens == {BufferSize, FrameLen, 2 * FrameLen}
\* the lengths of the bursts in the controller specification: the processor's
\* buffer size and a whole frame
ControllerLens == {BufferSize, FrameLen}
BurstAmps == {200}
\* bursts no longer than a frame, of two loudnesses
ShortLens == {BufferSize, 6000, FrameLen}
ShortAmps == {100, 200}
StatAmps == {0, 10, 30, 174, 178, 200}
FloorAmps == {10, 30}
\* constant amplitudes of either sign, from silence to loud
ConstantAmps == {-300, -200, -10, 0, 10, 200, 300}
\* amplitudes at, around and below the sound threshold, of either sign
QuietAmps == {-11, -10, 0, 10, 11}
\* the loudnesses of the sequence 0.01, 0.02, 0.2, 0.03, 0.01
ScenarioAmps == {10, 20, 30, 200}
SnapshotValues == {[i \in 1..NumBins |-> 100]}
\* the analyser's data once the collection is about to be full
LateSnapshots == SnapshotValues \cup {[i \in 1..NumBins |-> 200]}
\* snapshots of more bins than are displayed, as the analyser's 1024
WideBins == DisplayBins + NumBins
WideSnapshots == {[i \in 1..WideBins |-> 100], [i \in 1..WideBins |-> i],
                  [i \in 1..WideBins |-> 255 - i]}

\* score vectors the classifier returns in the controller specification
NoneAbove == [i \in 1..NumClasses |-> 5]
TwoAbove == [i \in 1..NumClasses |-> IF i = 2 THEN 80 ELSE IF i = 4 THEN 25 ELSE 10]
ManyAbove == [i \in 1..NumClasses |-> 90 - i]
ScoreVectors == {NoneAbove, TwoAbove}
HistoryVectors == {NoneAbove, TwoAbove, ManyAbove}

\* every score vector over these values: below, at and just above the threshold
ScoreValues == {10, 20, 21, 50}
AllScoreVectors == [1..NumClasses -> ScoreValues]

VARIABLES
    status,               \* useState<Status>
    detections,           \* useState<Detection[]>
    error,                \* useState<string>
    model,                \* useState<tf.GraphModel | null>: TRUE when non-null
    classNames,           \* useState<string[]>: its length
    summary,              \* useState<string>: which summary was produced
    recordingTime,        \* useState<number>
    spectrumData,         \* useState<number[]>
    audioContextRef,      \* refs: TRUE when non-null
    analyserRef,
    streamRef,
    scriptProcessorRef,
    audioBufferRef,       \* Float32Array, as runs
    isListeningRef,
    startTimeRef,
    timerIntervalRef,
    volumeHistoryRef,     \* number[]
    spectrumSnapshotsRef, \* Uint8Array[]
    loadPc,               \* position of the loadModel effect
    startPc,              \* position of startListening
    inFlight,             \* processAudioChunk calls suspended at await scores.data()
    hist                  \* history of the run, read by the properties only

vars == <<status, detections, error, model, classNames, summary, recordingTime,
          spectrumData, audioContextRef, analyserRef, streamRef, scriptProcessorRef,
          audioBufferRef, isListeningRef, startTimeRef, timerIntervalRef,
          volumeHistoryRef, spectrumSnapshotsRef, loadPc, startPc, inFlight, hist>>

\* ---- Float32Array as runs ----
RECURSIVE ArrLen(_)
ArrLen(a) == IF a = <<>> THEN 0 ELSE (a[1].hi - a[1].lo + 1) + ArrLen(Tail(a))

\* a followed by the run r, adjacent runs of one amplitude merged
ArrPush(a, r) ==
    IF r.hi < r.lo THEN a
    ELSE IF a # <<>> /\ a[Len(a)].hi + 1 = r.lo /\ a[Len(a)].amp = r.amp
         THEN [a EXCEPT ![Len(a)].hi = r.hi]
         ELSE Append(a, r)

RECURSIVE ArrConcat(_, _)
ArrConcat(a, b) == IF b = <<>> THEN a ELSE ArrConcat(ArrPush(a, b[1]), Tail(b))

\* a.slice(0, n)
RECURSIVE ArrHead(_, _)
ArrHead(a, n) ==
    IF n <= 0 \/ a = <<>> THEN <<>>
    ELSE LET l == a[1].hi - a[1].lo + 1 IN
         IF l >= n THEN <<[a[1] EXCEPT !.hi = a[1].lo + n - 1]>>
         ELSE <<a[1]>> \o ArrHead(Tail(a), n - l)

\* a.slice(n)
RECURSIVE ArrFrom(_, _)
ArrFrom(a, n) ==
    IF a = <<>> THEN <<>>
    ELSE IF n <= 0 THEN a
    ELSE LET l == a[1].hi - a[1].lo + 1 IN
         IF l > n THEN <<[a[1] EXCEPT !.lo = a[1].lo + n]>> \o Tail(a)
         ELSE ArrFrom(Tail(a), n - l)

RECURSIVE SumSquares(_)
SumSquares(a) ==
    IF a = <<>> THEN 0
    ELSE (a[1].hi - a[1].lo + 1) * a[1].amp * a[1].amp + SumSquares(Tail(a))

ISqrt(x) == CHOOSE r \in 0..1000 : r * r <= x /\ x < (r + 1) * (r + 1)

\* as Rms, the mean square without its root
MeanSquare(audioData) == SumSquares(audioData) \div ArrLen(audioData)

\* Math.sqrt(sum / audioData.length), to the thousandth below
Rms(audioData) == ISqrt(SumSquares(audioData) \div ArrLen(audioData))

Abs(x) == IF x < 0 THEN -x ELSE x

\* as HasSound, a sample at the threshold taken for sound
HasSoundOrAt(inputData) == \E i \in 1..Len(inputData) : Abs(inputData[i].amp) >= SoundThreshold

\* Array.from(inputData).some(sample => Math.abs(sample) > 0.01)
HasSound(inputData) == \E i \in 1..Len(inputData) : Abs(inputData[i].amp) > SoundThreshold

\* ---- small sequence helpers ----
Take(s, n) == SubSeq(s, 1, IF Len(s) < n THEN Len(s) ELSE n)

RECURSIVE SumSeq(_)
SumSeq(s) == IF s = <<>> THEN 0 ELSE s[1] + SumSeq(Tail(s))

MaxOf(s) == CHOOSE x \in {s[i] : i \in 1..Len(s)} : \A j \in 1..Len(s) : s[j] <= x
MinOf(s) == CHOOSE x \in {s[i] : i \in 1..Len(s)} : \A j \in 1..Len(s) : x <= s[j]

\* ---- processAudioChunk: from the score vector to the batch ----
\* x goes after every element that the comparator does not order after it
\* (Array.prototype.sort is stable)
RECURSIVE InsertDesc(_, _)
InsertDesc(s, x) ==
    IF s = <<>> THEN <<x>>
    ELSE IF s[1].score >= x.score THEN <<s[1]>> \o InsertDesc(Tail(s), x)
    ELSE <<x>> \o s

RECURSIVE SortDesc(_)
SortDesc(s) == IF s = <<>> THEN <<>> ELSE InsertDesc(SortDesc(SubSeq(s, 1, Len(s) - 1)), s[Len(s)])

\* Array.from(scoresData).map(...).sort((a, b) => b.score - a.score)
Predictions(scoresData) ==
    SortDesc([index \in 1..Len(scoresData) |-> [name |-> index, score |-> scoresData[index]]])

\* as AboveThreshold, with >= for >
AtOrAboveThreshold(p) == p.score >= ScoreThreshold

AboveThreshold(p) == p.score > ScoreThreshold

\* predictions.filter(p => p.score > 0.2).slice(0, 5).map(...)
TopPredictions(scoresData, frame, now) ==
    LET kept == Take(SelectSeq(Predictions(scoresData), AboveThreshold), TopK) IN
    [k \in 1..Len(kept) |->
        [id |-> <<frame.session, frame.id, k>>, label |-> kept[k].name, score |-> kept[k].score,
         timestamp |-> now]]

\* as Ingest, without the slice
IngestUncapped(topPredictions, prev) == topPredictions \o prev

\* as Ingest, the batch put behind the older entries
IngestBehind(topPredictions, prev) == Take(prev \o topPredictions, HistoryCap)

\* setDetections(prev => [...topPredictions, ...prev].slice(0, 20))
Ingest(topPredictions, prev) == Take(topPredictions \o prev, HistoryCap)

\* ---- stopListening: the two finalizations ----
\* as AverageSpectrum, every bin kept
AverageSpectrumUncut(snapshots) ==
    [i \in 1..Len(snapshots[1]) |->
        <<SumSeq([k \in 1..Len(snapshots) |-> snapshots[k][i]]), Len(snapshots)>>]

\* entry i of the averaged snapshots, as the pair <<sum of bin i, number of snapshots>>
AverageSpectrum(snapshots) ==
    LET bufferLength == Len(snapshots[1])
        averaged == [i \in 1..bufferLength |->
                        <<SumSeq([k \in 1..Len(snapshots) |-> snapshots[k][i]]),
                          Len(snapshots)>>]
    IN  Take(averaged, DisplayBins)

\* ---- the arithmetic of numbers: binary floating point, round to nearest ----
RECURSIVE BitLen(_)
BitLen(x) == IF x = 0 THEN 0 ELSE 1 + BitLen(x \div 2)

RECURSIVE Pow2(_)
Pow2(n) == IF n = 0 THEN 1 ELSE 2 * Pow2(n - 1)

\* the distance between neighbouring numbers at the magnitude of x
Spacing(x) == IF BitLen(x) <= Precision THEN 1 ELSE Pow2(BitLen(x) - Precision)

\* the number nearest to num / den, a tie going to the even significand
RoundNearest(num, den) ==
    LET q == num \div den
        s == Spacing(q)
        lo == (q \div s) * s
        hi == lo + s
        twice == 2 * (num - lo * den)
    IN  IF twice < s * den THEN lo
        ELSE IF twice > s * den THEN hi
        ELSE IF (lo \div s) % 2 = 0 THEN lo ELSE hi

\* a + b
FloatAdd(a, b) == RoundNearest(a + b, 1)

\* a / b
FloatDiv(a, b) == RoundNearest(a, b)

\* s.reduce((a, b) => a + b, 0)
RECURSIVE FloatSum(_)
FloatSum(s) ==
    IF s = <<>> THEN 0 ELSE FloatAdd(FloatSum(SubSeq(s, 1, Len(s) - 1)), s[Len(s)])

\* the number a quotient kept as <<numerator, denominator>> evaluates to
Quotient(pair) == FloatDiv(pair[1], pair[2])

RECURSIVE InsertAsc(_, _)
InsertAsc(s, x) ==
    IF s = <<>> THEN <<x>>
    ELSE IF s[1] <= x THEN <<s[1]>> \o InsertAsc(Tail(s), x)
    ELSE <<x>> \o s

RECURSIVE SortAsc(_)
SortAsc(s) == IF s = <<>> THEN <<>> ELSE InsertAsc(SortAsc(SubSeq(s, 1, Len(s) - 1)), s[Len(s)])

\* as CeilTenth, the tenth rounded down but for short sequences
TenthAtLeastOne(n) == IF n < 10 THEN 1 ELSE n \div 10

\* Math.ceil(n * 0.1)
CeilTenth(n) == (n + 9) \div 10

\* as Silent, against twice the threshold
SilentBelowTwice(v) == v < 2 * SilenceThreshold

\* as Silent, a sample at the threshold counted too
SilentOrAt(v) == v <= SilenceThreshold

\* volumes.filter(v => v < silenceThreshold)
Silent(v) == v < SilenceThreshold

\* [avgVolume, peakVolume, volumeRange, silencePercent, noiseFloor]; a quotient
\* is kept as the pair <<numerator, denominator>>
NoiseMetrics(volumes) ==
    LET peakVolume == MaxOf(volumes)
        minVolume == MinOf(volumes)
        silentSamples == Len(SelectSeq(volumes, Silent))
        noiseFloorSamples == Take(SortAsc(volumes), CeilTenth(Len(volumes)))
    IN  [avgVolume |-> <<FloatSum(volumes), Len(volumes)>>,
         peakVolume |-> peakVolume,
         volumeRange |-> peakVolume - minVolume,
         silencePercent |-> <<100 * silentSamples, Len(volumes)>>,
         noiseFloor |-> <<FloatSum(noiseFloorSamples), Len(noiseFloorSamples)>>]

\* generateSummary(noiseMetrics), with the detections of the render it runs in;
\* noiseMetrics is the empty sequence for null, else the one record of metrics
GenerateSummary(dets, noiseMetrics, duration) ==
    IF Len(dets) = 0 THEN [kind |-> "noSounds"]
    ELSE [kind |-> "session", totalDetections |-> Len(dets),
          duration |-> duration, noiseMetrics |-> noiseMetrics]

\* ---- the state after the first render ----
Init ==
    /\ status = "idle"
    /\ detections = <<>>
    /\ error = ""
    /\ model = FALSE
    /\ classNames = 0
    /\ summary = [kind |-> "none"]
    /\ recordingTime = 0
    /\ spectrumData = <<>>
    /\ audioContextRef = FALSE
    /\ analyserRef = FALSE
    /\ streamRef = FALSE
    /\ scriptProcessorRef = FALSE
    /\ audioBufferRef = <<>>
    /\ isListeningRef = FALSE
    /\ startTimeRef = FALSE
    /\ timerIntervalRef = FALSE
    /\ volumeHistoryRef = <<>>
    /\ spectrumSnapshotsRef = <<>>
    /\ loadPc = "mount"
    /\ startPc = "idle"
    /\ inFlight = {}
    /\ hist = [op |-> "init", starts |-> 0, session |-> 0, bursts |-> 0,
               received |-> 0, frames |-> 0, sessionFrames |-> 0, lastFrame |-> <<>>,
               extracted |-> <<>>, invoked |-> <<>>, completions |-> 0,
               completed |-> [id |-> 0, session |-> 0],
               failed |-> [id |-> 0, session |-> 0], framesAtFailure |-> 0,
               stream |-> <<>>, captured |-> <<>>, atCap |-> FALSE, everSpectrum |-> FALSE, metrics |-> <<>>,
               lastScores |-> <<>>, lastBatch |-> <<>>, prevDetections |-> <<>>,
               threw |-> FALSE, cleanupAfter |-> "none", refused |-> FALSE]

audioVars == <<audioBufferRef, volumeHistoryRef, spectrumSnapshotsRef, inFlight>>
refVars == <<audioContextRef, analyserRef, streamRef, scriptProcessorRef,
             isListeningRef, startTimeRef, timerIntervalRef>>

\* ---- useEffect(loadModel): one action per await ----
LoadModelStart ==
    /\ loadPc = "mount"
    /\ status' = "loading"
    /\ error' = ""
    /\ loadPc' = "loadGraphModel"
    /\ hist' = [hist EXCEPT !.op = "LoadModelStart"]
    /\ UNCHANGED <<detections, model, classNames, summary, recordingTime, spectrumData,
                   refVars, audioVars, startPc>>

LoadModelLoaded ==
    /\ loadPc = "loadGraphModel"
    /\ model' = TRUE
    /\ loadPc' = "fetch"
    /\ hist' = [hist EXCEPT !.op = "LoadModelLoaded"]
    /\ UNCHANGED <<status, detections, error, classNames, summary, recordingTime,
                   spectrumData, refVars, audioVars, startPc>>

\* the class map is fetched and parsed; names may turn out empty
LoadModelDone(names) ==
    /\ loadPc = "fetch"
    /\ classNames' = names
    /\ status' = "idle"
    /\ loadPc' = "done"
    /\ hist' = [hist EXCEPT !.op = "LoadModelDone"]
    /\ UNCHANGED <<detections, error, model, summary, recordingTime, spectrumData,
                   refVars, audioVars, startPc>>

\* tf.ready, loadGraphModel or fetch throws
LoadModelFailed ==
    /\ loadPc \in {"loadGraphModel", "fetch"}
    /\ error' = "Failed to load YAMNet model. Please refresh the page."
    /\ status' = "error"
    /\ loadPc' = "done"
    /\ hist' = [hist EXCEPT !.op = "LoadModelFailed"]
    /\ UNCHANGED <<detections, model, classNames, summary, recordingTime, spectrumData,
                   refVars, audioVars, startPc>>

\* ---- startListening ----
\* as StartEnabled, the button left enabled while listening
StartEnabledWhileListening == status # "loading" /\ model

\* the Start button is disabled while loading or listening or without a model
StartEnabled == status # "loading" /\ status # "listening" /\ model

\* as NoSpectrum, the spectrum of the session before left exposed
SpectrumLeft == spectrumData

\* setSpectrumData([]) at an accepted start request
NoSpectrum == <<>>

\* as ModelNotReady, the class names not looked at
ModelMissing == ~model

\* if (!model || !classNames.length)
ModelNotReady == ~model \/ classNames = 0

StartListening ==
    /\ StartEnabled
    /\ IF ModelNotReady
       THEN /\ error' = "Model not loaded yet"
            /\ hist' = [hist EXCEPT !.op = "StartRefused", !.starts = @ + 1]
            /\ UNCHANGED <<status, spectrumData, spectrumSnapshotsRef, startPc>>
       ELSE /\ status' = "loading"
            /\ error' = ""
            /\ spectrumData' = NoSpectrum
            /\ spectrumSnapshotsRef' = <<>>
            /\ startPc' = "getUserMedia"
            /\ hist' = [hist EXCEPT !.op = "StartListening", !.starts = @ + 1]
    /\ UNCHANGED <<detections, model, classNames, summary, recordingTime, refVars,
                   audioBufferRef, volumeHistoryRef, inFlight, loadPc>>

\* as StartCatchStatus, the failure taken for a success
StartCatchListening == "listening"

\* setStatus('error') in the catch block of startListening
StartCatchStatus == "error"

\* getUserMedia rejects
AcquireFailed ==
    /\ startPc = "getUserMedia"
    /\ error' = "Failed to access microphone. Please check permissions."
    /\ status' = StartCatchStatus
    /\ startPc' = "idle"
    /\ hist' = [hist EXCEPT !.op = "AcquireFailed"]
    /\ UNCHANGED <<detections, model, classNames, summary, recordingTime, spectrumData,
                   refVars, audioVars, loadPc>>

\* getUserMedia resolves and a later step of the set-up throws: at "context" the
\* AudioContext constructor, at "processor" createScriptProcessor
SetupFailed(at) ==
    /\ startPc = "getUserMedia"
    /\ streamRef' = TRUE
    /\ audioContextRef' = IF at = "processor" THEN TRUE ELSE audioContextRef
    /\ analyserRef' = IF at = "processor" THEN TRUE ELSE analyserRef
    /\ error' = "Failed to access microphone. Please check permissions."
    /\ status' = StartCatchStatus
    /\ startPc' = "idle"
    /\ hist' = [hist EXCEPT !.op = "SetupFailed"]
    /\ UNCHANGED <<detections, model, classNames, summary, recordingTime, spectrumData,
                   scriptProcessorRef, isListeningRef, startTimeRef, timerIntervalRef,
                   audioVars, loadPc>>

\* getUserMedia resolves and the rest of startListening runs to its end
AcquireDone ==
    /\ startPc = "getUserMedia"
    /\ streamRef' = TRUE
    /\ audioContextRef' = TRUE
    /\ analyserRef' = TRUE
    /\ scriptProcessorRef' = TRUE
    /\ status' = "listening"
    /\ isListeningRef' = TRUE
    /\ startTimeRef' = TRUE
    /\ recordingTime' = 0
    /\ timerIntervalRef' = TRUE
    /\ startPc' = "idle"
    /\ hist' = [hist EXCEPT !.op = "AcquireDone", !.session = @ + 1, !.received = 0,
                            !.sessionFrames = 0, !.extracted = <<>>,
                            !.stream = <<>>, !.captured = <<>>]
    /\ UNCHANGED <<detections, error, model, classNames, summary, spectrumData,
                   audioVars, loadPc>>

\* the setInterval callback
Tick ==
    /\ timerIntervalRef
    /\ recordingTime' = IF startTimeRef THEN recordingTime + 1 ELSE recordingTime
    /\ hist' = [hist EXCEPT !.op = "Tick"]
    /\ UNCHANGED <<status, detections, error, model, classNames, summary, spectrumData,
                   refVars, audioVars, loadPc, startPc>>

\* ---- processor.onaudioprocess and the synchronous part of processAudioChunk ----
\* as EnoughData, processing whatever has accrued
EnoughDataAny(buffer) == ArrLen(buffer) > 0

\* if (audioBufferRef.current.length >= 15600)
EnoughData(buffer) == ArrLen(buffer) >= FrameLen

\* as ChunkGuard, a frame not taken while a classification is pending
ChunkGuardIdle == model /\ classNames # 0 /\ isListeningRef /\ inFlight = {}

\* the guard at the top of processAudioChunk
ChunkGuard == model /\ classNames # 0 /\ isListeningRef

\* as AudioData, the newest samples taken for the frame
AudioDataLast(buffer) == ArrFrom(buffer, ArrLen(buffer) - FrameLen)

\* audioBufferRef.current.slice(0, 15600)
AudioData(buffer) == ArrHead(buffer, FrameLen)

\* as KeepExtra, the frame's samples left in the buffer
KeepAll(buffer) == buffer

\* audioBufferRef.current.slice(15600)
KeepExtra(buffer) == ArrFrom(buffer, FrameLen)

\* as PushVolume, the newest sample put first
PushVolumeFirst(volumes, rms) == <<rms>> \o volumes

\* volumeHistoryRef.current.push(rms)
PushVolume(volumes, rms) == Append(volumes, rms)

\* as Invoke, the newest call put first
InvokeFirst(invoked, frame) == <<frame>> \o invoked

\* the order in which model.execute has been called
Invoke(invoked, frame) == Append(invoked, frame)

\* as BelowCap, one snapshot more let in
BelowCapOrAt(snapshots) == Len(snapshots) <= SnapshotCap

\* spectrumSnapshotsRef.current.length < 50
BelowCap(snapshots) == Len(snapshots) < SnapshotCap

\* as PushSnapshot, the snapshot put in front
PushSnapshotFirst(snapshots, snap) == <<snap>> \o snapshots

\* spectrumSnapshotsRef.current.push(snapshot)
PushSnapshot(snapshots, snap) == Append(snapshots, snap)

\* a burst of len samples of amplitude amp arrives; capture is the outcome of
\* Math.random() < 0.1, snap the analyser's byte frequency data.  The call is
\* left suspended at await scores.data(); a throw of model.execute is caught by
\* the same catch block as a rejection of scores.data() and is the step
\* ProcessFailed taken next.
OnAudioProcess(len, amp, capture, snap) ==
    LET inputData == <<[lo |-> hist.received + 1, hi |-> hist.received + len, amp |-> amp]>>
        mayCapture == HasSound(inputData) /\ analyserRef
                      /\ BelowCap(spectrumSnapshotsRef)
        newBuffer == ArrConcat(audioBufferRef, inputData)
        process == EnoughData(newBuffer) /\ ChunkGuard
        frame == [id |-> hist.frames + 1, session |-> hist.session]
        audioData == AudioData(newBuffer)
        arrivedAtCap == hist.atCap \/ (HasSound(inputData) /\ analyserRef
                                        /\ Len(spectrumSnapshotsRef) >= SnapshotCap)
        taken == mayCapture /\ capture
    IN  /\ scriptProcessorRef
        /\ spectrumSnapshotsRef' = IF taken THEN PushSnapshot(spectrumSnapshotsRef, snap)
                                   ELSE spectrumSnapshotsRef
        /\ IF process
           THEN /\ volumeHistoryRef' = PushVolume(volumeHistoryRef, Rms(audioData))
                /\ audioBufferRef' = KeepExtra(newBuffer)
                /\ inFlight' = inFlight \cup {frame}
                /\ hist' = [hist EXCEPT !.op = "OnAudioProcess", !.bursts = @ + 1,
                                        !.received = @ + len, !.atCap = arrivedAtCap,
                                        !.stream = ArrConcat(@, inputData),
                                        !.captured = IF taken THEN Append(@, snap) ELSE @,
                                        !.refused = @ \/ (capture /\ ~mayCapture),
                                        !.frames = @ + 1, !.sessionFrames = @ + 1,
                                        !.lastFrame = audioData,
                                        !.extracted = ArrConcat(@, audioData),
                                        !.invoked = Invoke(@, frame.id)]
           ELSE /\ audioBufferRef' = newBuffer
                /\ hist' = [hist EXCEPT !.op = "OnAudioProcess", !.bursts = @ + 1,
                                        !.received = @ + len, !.atCap = arrivedAtCap,
                                        !.stream = ArrConcat(@, inputData),
                                        !.captured = IF taken THEN Append(@, snap) ELSE @,
                                        !.refused = @ \/ (capture /\ ~mayCapture)]
                /\ UNCHANGED <<volumeHistoryRef, inFlight>>
        /\ UNCHANGED <<status, detections, error, model, classNames, summary,
                       recordingTime, spectrumData, refVars, loadPc, startPc>>

\* ---- processAudioChunk after await scores.data() ----
ProcessDone(frame, scoresData) ==
    LET topPredictions == TopPredictions(scoresData, frame, hist.completions + 1) IN
    /\ frame \in inFlight
    /\ inFlight' = inFlight \ {frame}
    /\ detections' = IF Len(topPredictions) > 0 THEN Ingest(topPredictions, detections)
                     ELSE detections
    /\ hist' = [hist EXCEPT !.op = "ProcessDone", !.completions = @ + 1, !.completed = frame,
                            !.lastScores = scoresData, !.lastBatch = topPredictions,
                            !.prevDetections = detections]
    /\ UNCHANGED <<status, error, model, classNames, summary, recordingTime, spectrumData,
                   refVars, audioBufferRef, volumeHistoryRef, spectrumSnapshotsRef,
                   loadPc, startPc>>

\* as ProcessFailed, the failure ending the session in the error status
ProcessFailedFatal(frame) ==
    /\ frame \in inFlight
    /\ inFlight' = inFlight \ {frame}
    /\ status' = "error"
    /\ hist' = [hist EXCEPT !.op = "ProcessFailed", !.failed = frame,
                            !.framesAtFailure = hist.frames]
    /\ UNCHANGED <<detections, error, model, classNames, summary, recordingTime,
                   spectrumData, refVars, audioBufferRef, volumeHistoryRef,
                   spectrumSnapshotsRef, loadPc, startPc>>

\* model.execute throws or scores.data() rejects; the catch block logs
ProcessFailed(frame) ==
    /\ frame \in inFlight
    /\ inFlight' = inFlight \ {frame}
    /\ hist' = [hist EXCEPT !.op = "ProcessFailed", !.failed = frame,
                            !.framesAtFailure = hist.frames]
    /\ UNCHANGED <<status, detections, error, model, classNames, summary, recordingTime,
                   spectrumData, refVars, audioBufferRef, volumeHistoryRef,
                   spectrumSnapshotsRef, loadPc, startPc>>

\* ---- stopListening ----
\* the Stop button is disabled unless listening
StopEnabled == status = "listening"

\* as HasVolumes, a single sample taken for none
HasSeveralVolumes(volumes) == Len(volumes) > 1

\* if (volumes.length > 0)
HasVolumes(volumes) == Len(volumes) > 0

\* as SessionVolumes, the volume history emptied before it is read
ClearedVolumes == <<>>

\* const volumes = volumeHistoryRef.current
SessionVolumes == volumeHistoryRef

\* as NoVolumes, the volume history left in place
VolumesLeft == volumeHistoryRef

\* volumeHistoryRef.current = []
NoVolumes == <<>>

\* as NoTimer, the interval left running
TimerLeft == timerIntervalRef

\* clearInterval(timerIntervalRef.current); timerIntervalRef.current = null
NoTimer == FALSE

\* as EmptyBuffer, the buffered samples left in place
BufferLeft == audioBufferRef

\* audioBufferRef.current = new Float32Array(0)
EmptyBuffer == <<>>

\* as Released, a handle released whether it is held or not
ReleasedUnguarded(ref) == TRUE

\* if (ref.current) { ... }: a handle is released only when it is held
Released(ref) == ref

\* the body of stopListening, run with the detections of the render that made
\* it; releasing a handle that is null would throw and leave the rest undone
StopBody(op, dets) ==
    LET volumes == SessionVolumes
        calculatedMetrics == IF HasVolumes(volumes) THEN <<NoiseMetrics(volumes)>>
                             ELSE <<>>
        processorThrows == Released(scriptProcessorRef) /\ ~scriptProcessorRef
        streamThrows == ~processorThrows /\ Released(streamRef) /\ ~streamRef
        contextThrows == /\ ~processorThrows /\ ~streamThrows
                         /\ Released(audioContextRef) /\ ~audioContextRef
        throws == processorThrows \/ streamThrows \/ contextThrows
    IN  /\ isListeningRef' = FALSE
        /\ spectrumData' = IF Len(spectrumSnapshotsRef) > 0
                           THEN AverageSpectrum(spectrumSnapshotsRef)
                           ELSE spectrumData
        /\ spectrumSnapshotsRef' = <<>>
        /\ timerIntervalRef' = NoTimer
        /\ startTimeRef' = FALSE
        /\ summary' = GenerateSummary(dets, calculatedMetrics, recordingTime)
        /\ volumeHistoryRef' = NoVolumes
        /\ scriptProcessorRef' = FALSE
        /\ streamRef' = IF processorThrows THEN streamRef ELSE FALSE
        /\ audioContextRef' = IF processorThrows \/ streamThrows THEN audioContextRef
                               ELSE FALSE
        /\ IF throws
           THEN UNCHANGED <<audioBufferRef, analyserRef, recordingTime, status>>
           ELSE /\ audioBufferRef' = EmptyBuffer
                /\ analyserRef' = FALSE
                /\ recordingTime' = 0
                /\ status' = "idle"
        /\ hist' = [hist EXCEPT !.op = op, !.metrics = calculatedMetrics,
                                !.everSpectrum = @ \/ Len(spectrumSnapshotsRef) > 0,
                                !.threw = throws,
                                !.cleanupAfter = IF op = "Cleanup" THEN hist.op ELSE @]
        /\ UNCHANGED <<detections, error, model, classNames, inFlight, loadPc, startPc>>

\* the Stop button, enabled while listening
StopListening == StopEnabled /\ StopBody("StopListening", detections)

\* the clean-up of the mount effect: the stopListening of the first render,
\* whose detections are empty, whatever the status
Cleanup == StopBody("Cleanup", <<>>)

\* ---- the controller specification ----
\* the bounds: a burst is delivered while fewer than MaxBursts have been and
\* fewer than MaxInFlight classifications are suspended
BurstAllowed(limit) == hist.bursts < limit /\ Cardinality(inFlight) < MaxInFlight

LoadModel ==
    \/ LoadModelStart
    \/ LoadModelLoaded
    \/ \E names \in {0, NumClasses} : LoadModelDone(names)
    \/ LoadModelFailed

Next ==
    \/ LoadModel
    \/ (hist.starts < MaxStarts /\ StartListening)
    \/ AcquireFailed
    \/ \E at \in {"context", "processor"} : SetupFailed(at)
    \/ AcquireDone
    \/ (recordingTime < MaxTime /\ Tick)
    \/ \E len \in ControllerLens, amp \in BurstAmps, capture \in BOOLEAN,
          snap \in SnapshotValues :
            BurstAllowed(MaxBursts) /\ OnAudioProcess(len, amp, capture, snap)
    \/ \E frame \in inFlight, scoresData \in ScoreVectors : ProcessDone(frame, scoresData)
    \/ \E frame \in inFlight : ProcessFailed(frame)
    \/ StopListening

Spec == Init /\ [][Next]_vars

\* ---- the frame accumulator over one session ----
\* one session of bursts of every length, each frame classified or failed
NextAudio ==
    \/ LoadModelStart
    \/ LoadModelLoaded
    \/ LoadModelDone(NumClasses)
    \/ (hist.starts < 1 /\ StartListening)
    \/ AcquireDone
    \/ \E len \in BurstLens, amp \in BurstAmps, capture \in BOOLEAN,
          snap \in SnapshotValues :
            BurstAllowed(MaxAudioBursts) /\ OnAudioProcess(len, amp, capture, snap)
    \/ \E frame \in inFlight : ProcessDone(frame, TwoAbove)
    \/ \E frame \in inFlight : ProcessFailed(frame)

SpecAudio == Init /\ [][NextAudio]_vars

\* ---- the detection history over one long session ----
\* one session of frame-sized bursts; every frame is classified
NextHistory ==
    \/ LoadModelStart
    \/ LoadModelLoaded
    \/ LoadModelDone(NumClasses)
    \/ (hist.starts < 1 /\ StartListening)
    \/ AcquireDone
    \/ \E amp \in BurstAmps, snap \in SnapshotValues :
            BurstAllowed(MaxFrames) /\ OnAudioProcess(FrameLen, amp, FALSE, snap)
    \/ \E frame \in inFlight, scoresData \in HistoryVectors : ProcessDone(frame, scoresData)

SpecHistory == Init /\ [][NextHistory]_vars

\* ---- the batch of one frame, over all score vectors ----
NextTop ==
    \/ LoadModelStart
    \/ LoadModelLoaded
    \/ LoadModelDone(NumClasses)
    \/ (hist.starts < 1 /\ StartListening)
    \/ AcquireDone
    \/ \E amp \in BurstAmps, snap \in SnapshotValues :
            BurstAllowed(1) /\ OnAudioProcess(FrameLen, amp, FALSE, snap)
    \/ \E frame \in inFlight, scoresData \in AllScoreVectors : ProcessDone(frame, scoresData)

SpecTop == Init /\ [][NextTop]_vars

\* ---- the snapshot collection over one long session ----
\* one session of bursts of the processor's size, each free to capture a
\* snapshot; every frame is classified with nothing above the threshold
NextSnap ==
    \/ LoadModelStart
    \/ LoadModelLoaded
    \/ LoadModelDone(NumClasses)
    \/ (hist.starts < 1 /\ StartListening)
    \/ AcquireDone
    \/ \E amp \in BurstAmps, capture \in BOOLEAN,
          snap \in (IF Len(spectrumSnapshotsRef) >= SnapshotCap - 1
                    THEN LateSnapshots ELSE SnapshotValues) :
            BurstAllowed(MaxSnapBursts) /\ OnAudioProcess(BufferSize, amp, capture, snap)
    \/ \E frame \in inFlight : ProcessDone(frame, NoneAbove)

SpecSnap == Init /\ [][NextSnap]_vars

\* ---- the averaged spectrum of one session ----
\* one session of a few bursts, each free to capture one of the wide snapshots
NextSpectrum ==
    \/ LoadModelStart
    \/ LoadModelLoaded
    \/ LoadModelDone(NumClasses)
    \/ (hist.starts < 1 /\ StartListening)
    \/ AcquireDone
    \/ \E amp \in BurstAmps, capture \in BOOLEAN, snap \in WideSnapshots :
            BurstAllowed(MaxSpectrumBursts) /\ OnAudioProcess(BufferSize, amp, capture, snap)
    \/ StopListening

SpecSpectrum == Init /\ [][NextSpectrum]_vars

\* ---- the statistics of one session ----
\* one session of frame-sized bursts of several loudnesses, then the stop
NextStats ==
    \/ LoadModelStart
    \/ LoadModelLoaded
    \/ LoadModelDone(NumClasses)
    \/ (hist.starts < 1 /\ StartListening)
    \/ AcquireDone
    \/ \E amp \in StatAmps, snap \in SnapshotValues :
            BurstAllowed(MaxStatFrames) /\ OnAudioProcess(FrameLen, amp, FALSE, snap)
    \/ \E frame \in inFlight : ProcessDone(frame, NoneAbove)
    \/ StopListening

SpecStats == Init /\ [][NextStats]_vars

\* ---- the noise floor of one long session ----
\* one session of more than ten frame-sized bursts of two loudnesses, each
\* frame classified before the next burst, then the stop
NextFloor ==
    \/ LoadModelStart
    \/ LoadModelLoaded
    \/ LoadModelDone(NumClasses)
    \/ (hist.starts < 1 /\ StartListening)
    \/ AcquireDone
    \/ \E amp \in FloorAmps, snap \in SnapshotValues :
            /\ hist.bursts < MaxFloorFrames
            /\ inFlight = {}
            /\ OnAudioProcess(FrameLen, amp, FALSE, snap)
    \/ \E frame \in inFlight : ProcessDone(frame, NoneAbove)
    \/ StopListening

SpecFloor == Init /\ [][NextFloor]_vars

\* ---- the frame accumulator fed with bursts of at most one frame ----
NextShort ==
    \/ LoadModelStart
    \/ LoadModelLoaded
    \/ LoadModelDone(NumClasses)
    \/ (hist.starts < 1 /\ StartListening)
    \/ AcquireDone
    \/ \E len \in ShortLens, amp \in ShortAmps, snap \in SnapshotValues :
            BurstAllowed(MaxShortBursts) /\ OnAudioProcess(len, amp, FALSE, snap)
    \/ \E frame \in inFlight : ProcessDone(frame, NoneAbove)
    \/ \E frame \in inFlight : ProcessFailed(frame)

SpecShort == Init /\ [][NextShort]_vars

\* ---- the snapshots of quiet and loud bursts ----
\* one session of a few bursts of the processor's size around the sound
\* threshold, each with a free random draw
NextQuiet ==
    \/ LoadModelStart
    \/ LoadModelLoaded
    \/ LoadModelDone(NumClasses)
    \/ (hist.starts < 1 /\ StartListening)
    \/ AcquireDone
    \/ \E amp \in QuietAmps, capture \in BOOLEAN, snap \in SnapshotValues :
            BurstAllowed(MaxQuietBursts) /\ OnAudioProcess(BufferSize, amp, capture, snap)
    \/ \E frame \in inFlight : ProcessDone(frame, NoneAbove)

SpecQuiet == Init /\ [][NextQuiet]_vars

\* ---- the volume of constant frames ----
\* one session of frame-sized bursts, each of one amplitude, each frame
\* classified before the next burst
NextConstant ==
    \/ LoadModelStart
    \/ LoadModelLoaded
    \/ LoadModelDone(NumClasses)
    \/ (hist.starts < 1 /\ StartListening)
    \/ AcquireDone
    \/ \E amp \in ConstantAmps, snap \in SnapshotValues :
            /\ hist.bursts < MaxConstantFrames
            /\ inFlight = {}
            /\ OnAudioProcess(FrameLen, amp, FALSE, snap)
    \/ \E frame \in inFlight : ProcessDone(frame, NoneAbove)

SpecConstant == Init /\ [][NextConstant]_vars

\* ---- the stop applied again ----
\* the controller with the clean-up of the mount effect, after which the
\* component takes no further step
NextReset ==
    \/ (hist.op # "Cleanup" /\ LoadModel)
    \/ (hist.op # "Cleanup" /\ hist.starts < MaxStarts /\ StartListening)
    \/ (hist.op # "Cleanup" /\ AcquireFailed)
    \/ (hist.op # "Cleanup" /\ \E at \in {"context", "processor"} : SetupFailed(at))
    \/ (hist.op # "Cleanup" /\ AcquireDone)
    \/ \E len \in ControllerLens, amp \in BurstAmps, capture \in BOOLEAN,
          snap \in SnapshotValues :
            /\ hist.op # "Cleanup"
            /\ BurstAllowed(MaxResetBursts)
            /\ OnAudioProcess(len, amp, capture, snap)
    \/ \E frame \in inFlight, scoresData \in ScoreVectors :
            hist.op # "Cleanup" /\ ProcessDone(frame, scoresData)
    \/ (hist.op # "Cleanup" /\ StopListening)
    \/ (hist.op # "Cleanup" /\ Cleanup)

SpecReset == Init /\ [][NextReset]_vars

\* ---- the statistics of one session of five frames ----
\* one session of frame-sized bursts over the scenario's loudnesses, each frame
\* classified before the next burst, then the stop
NextScenario ==
    \/ LoadModelStart
    \/ LoadModelLoaded
    \/ LoadModelDone(NumClasses)
    \/ (hist.starts < 1 /\ StartListening)
    \/ AcquireDone
    \/ \E amp \in ScenarioAmps, snap \in SnapshotValues :
            /\ hist.bursts < MaxScenarioFrames
            /\ inFlight = {}
            /\ OnAudioProcess(FrameLen, amp, FALSE, snap)
    \/ \E frame \in inFlight : ProcessDone(frame, NoneAbove)
    \/ StopListening

SpecScenario == Init /\ [][NextScenario]_vars

\* ---- the claims ----
Min(a, b) == IF a < b THEN a ELSE b

C2_FrameExact ==
    hist.lastFrame # <<>> => ArrLen(hist.lastFrame) = FrameLen

\* a frame was extracted from a buffer that held more than one frame's worth
C2_Witness ==
    /\ hist.op = "OnAudioProcess"
    /\ hist.sessionFrames >= 1
    /\ ArrLen(hist.lastFrame) = FrameLen
    /\ ArrLen(audioBufferRef) > 0

\* C3: the detection history never holds more than 20 entries.
C3_HistoryBounded == Len(detections) <= HistoryCap

\* a completion whose batch did not fit in front of the history
C3_Witness ==
    /\ hist.op = "ProcessDone"
    /\ Len(hist.lastBatch) + Len(hist.prevDetections) > HistoryCap
    /\ Len(detections) = HistoryCap

\* C4: after a completion with batch B on history H the history is B followed
\* by H, cut after 20 entries: B at the front in its order, then the entries of
\* H in their order, the ones that do not fit dropped from the tail; an empty
\* batch leaves H as it was.
C4_IngestPrepends ==
    hist.op = "ProcessDone" =>
        LET B == hist.lastBatch
            H == hist.prevDetections
        IN  IF B = <<>> THEN detections = H
            ELSE /\ Len(detections) = Min(HistoryCap, Len(B) + Len(H))
                 /\ \A i \in 1..Len(detections) :
                        detections[i] = IF i <= Len(B) THEN B[i] ELSE H[i - Len(B)]

\* a batch of several detections ingested into a history that overflows
C4_Witness ==
    /\ hist.op = "ProcessDone"
    /\ Len(hist.lastBatch) > 1
    /\ hist.prevDetections # <<>>
    /\ Len(hist.lastBatch) + Len(hist.prevDetections) > HistoryCap
    /\ detections[1] = hist.lastBatch[1]

\* C5: the batch built from a score vector has at most 5 detections, each an
\* entry of the vector with score above 0.2, in non-increasing order of score,
\* and no entry above 0.2 that was left out has a higher score than one that
\* was taken; none is left out while fewer than 5 were taken.
C5_TopBatch ==
    hist.op = "ProcessDone" =>
        LET v == hist.lastScores
            B == hist.lastBatch
            taken == {B[k].label : k \in 1..Len(B)}
            leftOut == {i \in 1..Len(v) : v[i] > ScoreThreshold /\ i \notin taken}
        IN  /\ Len(B) <= TopK
            /\ \A k \in 1..Len(B) : /\ B[k].label \in 1..Len(v)
                                    /\ B[k].score = v[B[k].label]
                                    /\ B[k].score > ScoreThreshold
            /\ \A k, l \in 1..Len(B) : k < l => /\ B[k].score >= B[l].score
                                                /\ B[k].label # B[l].label
            /\ \A i \in leftOut : \A k \in 1..Len(B) : v[i] <= B[k].score
            /\ leftOut # {} => Len(B) = TopK

\* five were taken, one above the threshold was left out, and the vector holds
\* a score equal to the threshold
C5_Witness ==
    /\ hist.op = "ProcessDone"
    /\ Len(hist.lastBatch) = TopK
    /\ \E i \in 1..Len(hist.lastScores) :
           /\ hist.lastScores[i] > ScoreThreshold
           /\ \A k \in 1..TopK : hist.lastBatch[k].label # i
    /\ \E i \in 1..Len(hist.lastScores) : hist.lastScores[i] = ScoreThreshold

\* C6: no detection with confidence of 30% or less is in the displayed history.
C6_Above30 ==
    \A i \in 1..Len(detections) : detections[i].score > DocConfidence

\* C7: listening is entered only from loading, by the completion of the
\* acquisition, with the stream held; listening is left only to idle, by
\* stopListening; error is entered only from loading or listening; an accepted
\* start request moves idle or error to loading.
C7_Edges ==
    [][ /\ (status' = "listening" /\ status # "listening")
            => (status = "loading" /\ hist'.op = "AcquireDone" /\ streamRef')
        /\ (status = "listening" /\ status' # "listening")
            => (status' = "idle" /\ hist'.op = "StopListening")
        /\ (status' = "error" /\ status # "error")
            => status \in {"loading", "listening"}
        /\ hist'.op = "StartListening"
            => (status \in {"idle", "error"} /\ status' = "loading")
      ]_vars

\* a second session is listening, started from the error state
C7_Witness ==
    /\ status = "listening"
    /\ hist.session = 1
    /\ hist.starts = 2
    /\ error = ""

\* C8: when listening is entered the history is empty, and while listening the
\* history holds no detection of a frame of an earlier session.
C8_HistoryResetAtStart ==
    /\ hist.op = "AcquireDone" => detections = <<>>
    /\ status = "listening"
        => \A i \in 1..Len(detections) : detections[i].id[1] = hist.session

\* C9: the completion of a classification whose session has been stopped
\* leaves the history as it was.
C9_LateCompletionDiscarded ==
    [][ (hist'.op = "ProcessDone"
         /\ (~isListeningRef \/ hist'.completed.session # hist.session))
            => detections' = detections ]_vars

\* C10: model.execute is called on the frames in the order of their extraction,
\* once for each frame extracted.
C10_InvokedInOrder ==
    /\ Len(hist.invoked) = hist.frames
    /\ \A i, j \in 1..Len(hist.invoked) : i < j => hist.invoked[i] < hist.invoked[j]

\* two frames are with the classifier at once, and an earlier one has completed
C10_Witness ==
    /\ Len(hist.invoked) >= 3
    /\ Cardinality(inFlight) = 2
    /\ hist.completions >= 1

\* C11: right after a stop request taken while listening the controller is
\* idle, the stream, the processor and the audio context are released, and the
\* sample buffer, the volume history and the snapshot collection are empty.
C11_StopReleases ==
    hist.op = "StopListening"
        => /\ status = "idle"
           /\ ~streamRef /\ ~scriptProcessorRef /\ ~audioContextRef
           /\ audioBufferRef = <<>>
           /\ volumeHistoryRef = <<>>
           /\ spectrumSnapshotsRef = <<>>

\* a session stopped after a frame was measured, samples were left in the
\* buffer and a snapshot was captured
C11_Witness ==
    /\ hist.op = "StopListening"
    /\ hist.sessionFrames >= 1
    /\ hist.received > hist.sessionFrames * FrameLen
    /\ spectrumData # <<>>

\* C12: a start request whose acquisition fails ends in the error status with
\* nothing finalized: the summary is the one from before, no spectrum is
\* exposed, the session flag is down; and the error status is never followed
\* directly by listening.
C12_FailedStart ==
    [][/\ hist'.op \in {"AcquireFailed", "SetupFailed"}
            => /\ status' = "error"
               /\ summary' = summary
               /\ spectrumData' = <<>>
               /\ ~isListeningRef'
               /\ startPc' = "idle"
       /\ status = "error" => status' # "listening"]_vars

\* the acquisition of a second start request has failed, after a first session
\* that ended with a summary
C12_Witness ==
    /\ hist.op \in {"AcquireFailed", "SetupFailed"}
    /\ summary.kind = "session"
    /\ hist.session = 1

\* C13: a start request made while the model or the class names are missing
\* changes neither the status nor the acquisition in progress nor the stream,
\* the sample buffer, the volume history, the snapshot collection, the exposed
\* spectrum or the detection history.
C13_RefusedStart ==
    [][(hist'.starts = hist.starts + 1 /\ (~model \/ classNames = 0))
            => UNCHANGED <<status, startPc, streamRef, audioBufferRef, volumeHistoryRef,
                           spectrumSnapshotsRef, spectrumData, detections>>]_vars

\* a start request has been refused
C13_Witness == hist.op = "StartRefused" /\ model /\ classNames = 0

\* C14: while the status is loading for a start request, a step that is not the
\* completion or the failure of the acquisition changes nothing of the
\* controller: no start, no stop, no burst, no change of the detection history.
C14_LoadingQuiet ==
    [][(/\ status = "loading"
        /\ startPc = "getUserMedia"
        /\ hist'.op \notin {"AcquireDone", "AcquireFailed", "SetupFailed"})
            => UNCHANGED <<status, detections, error, model, classNames, summary,
                           recordingTime, spectrumData, refVars, audioBufferRef,
                           volumeHistoryRef, spectrumSnapshotsRef, loadPc, startPc>>]_vars

\* C15: the failure of the classification of a frame leaves the status, the
\* processor and the other references, the sample buffer, the snapshot
\* collection and the detection history as they were, and the volume history
\* still holds the sample of the failed frame, one sample per frame of the
\* session.
C15_FailureNonFatal ==
    [][hist'.op = "ProcessFailed"
            => /\ UNCHANGED <<status, detections, spectrumSnapshotsRef, volumeHistoryRef,
                              audioBufferRef, refVars>>
               /\ (isListeningRef /\ hist'.failed.session = hist.session)
                    => /\ status' = "listening"
                       /\ Len(volumeHistoryRef') = hist.sessionFrames
                       /\ hist'.failed.id > hist.frames - hist.sessionFrames]_vars

\* a frame extracted after the failed one has been classified, the session
\* still listening
C15_Witness ==
    /\ hist.op = "ProcessDone"
    /\ status = "listening"
    /\ hist.failed.id >= 1
    /\ hist.failed.session = hist.session
    /\ hist.completed.id > hist.framesAtFailure
    /\ Len(hist.lastBatch) > 0

\* C16: the snapshot collection never holds more than 50 snapshots.
C16_SnapshotsBounded == Len(spectrumSnapshotsRef) <= SnapshotCap

\* the collection is full and a burst with sound has arrived since it was
C16_Witness ==
    /\ Len(spectrumSnapshotsRef) = SnapshotCap
    /\ hist.atCap
    /\ hist.op = "OnAudioProcess"

\* C17: a stop request taken with no snapshot in the collection leaves the
\* empty sequence exposed as the session's spectrum.
C17_NoSnapshotsNoSpectrum ==
    [][(hist'.op = "StopListening" /\ Len(spectrumSnapshotsRef) = 0)
            => spectrumData' = <<>>]_vars

\* a session without snapshots has been stopped after an earlier session had
\* exposed a spectrum
C17_Witness ==
    /\ hist.op = "StopListening"
    /\ hist.everSpectrum
    /\ spectrumData = <<>>

\* the sum of bin i over the snapshots
RECURSIVE BinTotal(_, _)
BinTotal(snapshots, i) ==
    IF snapshots = <<>> THEN 0 ELSE snapshots[1][i] + BinTotal(Tail(snapshots), i)

\* C18: a stop request taken with k >= 1 snapshots of N bins each exposes a
\* spectrum of min(128, N) entries, entry i being the sum of bin i over the k
\* snapshots divided by k.
C18_SpectrumIsMean ==
    [][(hist'.op = "StopListening" /\ Len(spectrumSnapshotsRef) >= 1)
            => LET k == Len(spectrumSnapshotsRef)
                   N == Len(spectrumSnapshotsRef[1])
               IN  /\ Len(spectrumData') = Min(DisplayBins, N)
                   /\ \A i \in 1..Len(spectrumData') :
                        spectrumData'[i] = <<BinTotal(spectrumSnapshotsRef, i), k>>]_vars

\* three differing snapshots of more than 128 bins have been averaged
C18_Witness ==
    /\ hist.op = "StopListening"
    /\ Len(spectrumData) = DisplayBins
    /\ spectrumData[1][2] = 3
    /\ spectrumData[1][1] = 100 + 1 + 254

\* C19: a stop request produces the metrics exactly when the volume history
\* holds at least one sample, and in either case ends in the idle status with
\* the error message as it was.
C19_StatsIffVolumes ==
    [][hist'.op = "StopListening"
            => /\ (hist'.metrics # <<>>) <=> (Len(volumeHistoryRef) >= 1)
               /\ status' = "idle"
               /\ error' = error]_vars

\* a session without a frame has been stopped with no metrics, after a session
\* that had measured a frame
C19_Witness ==
    /\ hist.op = "StopListening"
    /\ hist.sessionFrames = 0
    /\ hist.frames >= 1
    /\ hist.metrics = <<>>
    /\ status = "idle"

\* C20: the metrics a stop request computes from a non-empty volume history
\* satisfy noise floor <= average <= peak and range = peak - minimum.
C20_StatsOrdered ==
    [][(hist'.op = "StopListening" /\ Len(volumeHistoryRef) >= 1)
            => LET m == hist'.metrics[1]
               IN  /\ Quotient(m.noiseFloor) <= Quotient(m.avgVolume)
                   /\ Quotient(m.avgVolume) <= m.peakVolume
                   /\ m.volumeRange = m.peakVolume - MinOf(volumeHistoryRef)]_vars

\* C21: the silence percentage a stop request computes is 100 times the number
\* of volume samples strictly below 0.01 over the number of samples; a sample
\* equal to 0.01 is not counted.
C21_SilenceFraction ==
    [][(hist'.op = "StopListening" /\ Len(volumeHistoryRef) >= 1)
            => LET v == volumeHistoryRef
                   below == {i \in 1..Len(v) : v[i] < SilenceThreshold}
               IN  hist'.metrics[1].silencePercent = <<100 * Cardinality(below), Len(v)>>]_vars

\* three samples have been measured, one of 0, one of exactly 0.01 and one of
\* 0.2, and one of the three was counted silent
C21_Witness ==
    /\ hist.op = "StopListening"
    /\ hist.metrics # <<>>
    /\ hist.metrics[1].avgVolume = <<210, 3>>
    /\ hist.metrics[1].silencePercent = <<100, 3>>

\* s without its entry at index i
Without(s, i) == SubSeq(s, 1, i - 1) \o SubSeq(s, i + 1, Len(s))

\* the sum of the k smallest entries of s, by repeated selection of a minimum
RECURSIVE SumSmallest(_, _)
SumSmallest(s, k) ==
    IF k = 0 THEN 0
    ELSE LET i == CHOOSE i \in 1..Len(s) : \A j \in 1..Len(s) : s[i] <= s[j]
         IN  s[i] + SumSmallest(Without(s, i), k - 1)

\* C22: the noise floor a stop request computes from n >= 1 volume samples is
\* the sum of the ceil(n / 10) smallest samples over their number, which is at
\* least one; for n = 5 it is the smallest sample alone.
C22_NoiseFloor ==
    [][(hist'.op = "StopListening" /\ Len(volumeHistoryRef) >= 1)
            => LET v == volumeHistoryRef
                   n == Len(v)
                   k == CHOOSE c \in 1..n : 10 * (c - 1) < n /\ n <= 10 * c
                   floor == hist'.metrics[1].noiseFloor
               IN  /\ floor = <<SumSmallest(v, k), k>>
                   /\ floor[2] >= 1
                   /\ n = 5 => floor = <<MinOf(v), 1>>]_vars

\* eleven samples, one of them quieter than the others, have given a noise
\* floor over the two smallest
C22_Witness ==
    /\ hist.op = "StopListening"
    /\ hist.sessionFrames = 11
    /\ hist.metrics # <<>>
    /\ hist.metrics[1].noiseFloor = <<40, 2>>

\* C23: with every burst at most 15,600 samples long, a burst delivered while
\* listening extracts at most one frame and leaves fewer than 15,600 samples
\* buffered; bursts of 6000, 6000 and 6000 samples give no frame after the
\* second and one frame after the third, with 2,400 samples left.
C23_ShortBursts ==
    [][hist'.op = "OnAudioProcess"
            => /\ hist'.sessionFrames <= hist.sessionFrames + 1
               /\ ArrLen(audioBufferRef') < FrameLen
               /\ (hist'.bursts = 2 /\ hist'.received = 12000) => hist'.sessionFrames = 0
               /\ (hist'.bursts = 3 /\ hist'.received = 18000)
                    => /\ hist.sessionFrames = 0
                       /\ hist'.sessionFrames = 1
                       /\ ArrLen(hist'.lastFrame) = FrameLen
                       /\ ArrLen(audioBufferRef') = 2400]_vars

\* the third of three bursts of 6000 samples has been delivered
C23_Witness ==
    /\ hist.op = "OnAudioProcess"
    /\ hist.bursts = 3
    /\ hist.received = 18000
    /\ hist.sessionFrames = 1
    /\ ArrLen(audioBufferRef) = 2400

\* C24: while listening, the frames extracted so far in the session, in the
\* order of their extraction, followed by the buffered samples are the bursts
\* received since the session started, sample for sample.
C24_SamplesConserved ==
    status = "listening" => ArrConcat(hist.extracted, audioBufferRef) = hist.stream

\* two frames have been extracted from bursts of differing loudness and
\* samples are left in the buffer
C24_Witness ==
    /\ status = "listening"
    /\ hist.sessionFrames >= 2
    /\ audioBufferRef # <<>>
    /\ Len(hist.stream) >= 3

\* the i-th frame of 15,600 samples of the stream a
NthFrame(a, i) == ArrHead(ArrFrom(a, (i - 1) * FrameLen), FrameLen)

\* C25: while listening, the volume history holds one sample per frame
\* extracted in the session, the i-th sample being the root mean square of the
\* i-th extracted frame, whether the classifications of the frames are
\* pending, completed or failed.
C25_OneVolumePerFrame ==
    status = "listening"
        => /\ Len(volumeHistoryRef) = hist.sessionFrames
           /\ \A i \in 1..Len(volumeHistoryRef) :
                volumeHistoryRef[i] = Rms(NthFrame(hist.extracted, i))

\* three frames of differing loudness have been measured: the first has
\* failed, the second is pending, the third has completed
C25_Witness ==
    /\ status = "listening"
    /\ Len(volumeHistoryRef) = 3
    /\ volumeHistoryRef[1] # volumeHistoryRef[2]
    /\ hist.failed.id = 1
    /\ hist.completed.id = 3
    /\ \E frame \in inFlight : frame.id = 2

\* C26: classifier invocations are not limited to one at a time.  A burst that
\* brings the buffer to a frame's length while listening hands a new frame to
\* the classifier whatever is pending, and a completion is applied to the
\* history when it arrives, whichever older frames are still pending.
C26_NoSingleSlot ==
    [][/\ (/\ hist'.op = "OnAudioProcess"
            /\ status = "listening"
            /\ ArrLen(audioBufferRef) + (hist'.received - hist.received) >= FrameLen)
            => /\ hist'.frames = hist.frames + 1
               /\ inFlight' = inFlight \cup {[id |-> hist'.frames, session |-> hist.session]}
       /\ (hist'.op = "ProcessDone" /\ Len(hist'.lastBatch) > 0)
            => /\ hist'.completed \in inFlight
               /\ detections'[1].id[2] = hist'.completed.id]_vars

\* frame 2 was handed over while frame 1 was pending, frame 2 has completed
\* first and frame 1 after it: the entries of frame 1 stand in front of those
\* of frame 2
C26_Witness ==
    /\ hist.op = "ProcessDone"
    /\ hist.completed.id = 1
    /\ hist.invoked = <<1, 2>>
    /\ Len(detections) = 4
    /\ detections[1].id[2] = 1
    /\ detections[3].id[2] = 2

\* C27: of two entries of the detection history that come from different
\* frames, the one from the frame extracted later stands at the smaller index.
C27_NewestFrameFirst ==
    \A i, j \in 1..Len(detections) :
        (i < j /\ detections[i].id[2] # detections[j].id[2])
            => detections[i].id[2] > detections[j].id[2]

\* C28: a stop request computes the metrics over the whole volume history of
\* the session being stopped, one sample per frame of the session, hands them
\* to the summary, and averages exactly the snapshots captured in the session,
\* all as they stood before the collections are emptied.
C28_FinalizeBeforeReset ==
    [][hist'.op = "StopListening"
            => /\ Len(volumeHistoryRef) = hist.sessionFrames
               /\ spectrumSnapshotsRef = hist.captured
               /\ Len(volumeHistoryRef) >= 1
                    => /\ hist'.metrics # <<>>
                       /\ hist'.metrics[1].avgVolume
                            = <<FloatSum(volumeHistoryRef), hist.sessionFrames>>
                       /\ hist'.metrics[1].peakVolume = MaxOf(volumeHistoryRef)
               /\ summary'.kind = "session" => summary'.noiseMetrics = hist'.metrics
               /\ Len(hist.captured) >= 1
                    => \A i \in 1..Len(spectrumData') :
                        spectrumData'[i] = <<BinTotal(hist.captured, i), Len(hist.captured)>>
               /\ volumeHistoryRef' = <<>>
               /\ spectrumSnapshotsRef' = <<>>]_vars

\* a session with two measured frames, a captured snapshot and detections has
\* been stopped: the summary carries the metrics over both frames
C28_Witness ==
    /\ hist.op = "StopListening"
    /\ hist.sessionFrames = 2
    /\ hist.captured # <<>>
    /\ spectrumData # <<>>
    /\ summary.kind = "session"
    /\ summary.noiseMetrics # <<>>
    /\ summary.noiseMetrics[1].avgVolume[2] = 2

\* C29: on every step that enters the listening status the sample buffer, the
\* volume history and the snapshot collection are empty and the recording time
\* reads 0.
C29_FreshSession ==
    [][(status # "listening" /\ status' = "listening")
            => /\ audioBufferRef' = <<>>
               /\ volumeHistoryRef' = <<>>
               /\ spectrumSnapshotsRef' = <<>>
               /\ recordingTime' = 0]_vars

\* a second session has begun after a first one of two bursts in which a frame
\* was measured
C29_Witness ==
    /\ hist.op = "AcquireDone"
    /\ status = "listening"
    /\ hist.session = 2
    /\ hist.frames >= 1
    /\ hist.bursts = 2

\* C30: whenever the status is not listening the sample buffer and the volume
\* history are empty and the recording timer is not running, and no step taken
\* then extracts a frame or adds a volume sample.
C30_QuietWhenNotListening ==
    /\ [](status # "listening"
            => /\ audioBufferRef = <<>>
               /\ volumeHistoryRef = <<>>
               /\ ~timerIntervalRef)
    /\ [][status # "listening"
            => /\ hist'.frames = hist.frames
               /\ volumeHistoryRef' = volumeHistoryRef]_vars

\* a session with a measured frame and a running timer has been stopped and a
\* classification of it is still pending
C30_Witness ==
    /\ hist.op = "StopListening"
    /\ status = "idle"
    /\ hist.sessionFrames >= 1
    /\ hist.received > hist.sessionFrames * FrameLen
    /\ inFlight # {}

\* C31: whenever the status is idle or error no audio source is held: neither
\* the microphone stream nor the audio context nor the processor.
C31_NoSourceHeld ==
    status \in {"idle", "error"}
        => ~streamRef /\ ~audioContextRef /\ ~scriptProcessorRef

\* the volume samples 0.01, 0.02, 0.2, 0.03, 0.01
ScenarioVolumes == <<10, 20, 200, 30, 10>>

\* C32: a stop request taken with the volume history 0.01, 0.02, 0.2, 0.03,
\* 0.01 reports a silence percentage of 40.
C32_SilenceForty ==
    [][(hist'.op = "StopListening" /\ volumeHistoryRef = ScenarioVolumes)
            => hist'.metrics[1].silencePercent[1]
                = 40 * hist'.metrics[1].silencePercent[2]]_vars

\* C32, amended: a stop request taken with the volume history 0.01, 0.02, 0.2,
\* 0.03, 0.01 reports a silence percentage of 0, no sample being strictly
\* below 0.01.
C32_SilenceZero ==
    [][(hist'.op = "StopListening" /\ volumeHistoryRef = ScenarioVolumes)
            => /\ hist'.metrics[1].silencePercent = <<0, 5>>
               /\ Quotient(hist'.metrics[1].silencePercent) = 0]_vars

\* the session of five frames of loudness 0.01, 0.02, 0.2, 0.03, 0.01 has been
\* stopped
C32_Witness ==
    /\ hist.op = "StopListening"
    /\ hist.sessionFrames = 5
    /\ Len(hist.extracted) = 5
    /\ [i \in 1..5 |-> hist.extracted[i].amp] = ScenarioVolumes
    /\ hist.metrics # <<>>
    /\ hist.metrics[1].avgVolume[2] = 5

\* C33: a stop request taken in a session of which no frame has been extracted
\* sets the summary to the sentence that no sounds were detected.
C33_NoFramesNoSounds ==
    [][(hist'.op = "StopListening" /\ hist.sessionFrames = 0)
            => summary'.kind = "noSounds"]_vars

\* the state a stop leaves: nothing buffered, no volume sample, no snapshot, no
\* audio source held, the status idle
ResetState ==
    /\ audioBufferRef = <<>>
    /\ volumeHistoryRef = <<>>
    /\ spectrumSnapshotsRef = <<>>
    /\ ~scriptProcessorRef /\ ~streamRef /\ ~audioContextRef /\ ~analyserRef
    /\ status = "idle"

\* C34: stopListening never throws and leaves the reset state; applied again
\* right after a stop it leaves the buffer, the volume history, the snapshots,
\* the audio-source handles and the status as the first application left them.
C34_StopIdempotent ==
    /\ [](hist.op \in {"StopListening", "Cleanup"} => ~hist.threw /\ ResetState)
    /\ [][(hist.op = "StopListening" /\ hist'.op = "Cleanup")
            => /\ ~hist'.threw
               /\ audioBufferRef' = audioBufferRef
               /\ volumeHistoryRef' = volumeHistoryRef
               /\ spectrumSnapshotsRef' = spectrumSnapshotsRef
               /\ scriptProcessorRef' = scriptProcessorRef
               /\ streamRef' = streamRef
               /\ audioContextRef' = audioContextRef
               /\ analyserRef' = analyserRef
               /\ status' = status]_vars

\* stopListening has run again right after the stop of a session in which a
\* frame was extracted
C34_Witness ==
    /\ hist.op = "Cleanup"
    /\ hist.cleanupAfter = "StopListening"
    /\ hist.sessionFrames > 0
    /\ ~hist.threw
    /\ ResetState

\* s is a prefix of t
IsPrefix(s, t) == Len(s) <= Len(t) /\ SubSeq(t, 1, Len(s)) = s

\* C35: a burst only appends to the snapshot collection, a classification
\* leaves it as it is, and a burst arriving with 50 snapshots stored leaves the
\* collection unchanged whatever its samples and its random draw.
C35_SnapshotsAppendOnly ==
    [][/\ hist'.op = "OnAudioProcess"
            => /\ IsPrefix(spectrumSnapshotsRef, spectrumSnapshotsRef')
               /\ Len(spectrumSnapshotsRef') <= Len(spectrumSnapshotsRef) + 1
               /\ Len(spectrumSnapshotsRef) >= SnapshotCap
                    => spectrumSnapshotsRef' = spectrumSnapshotsRef
       /\ hist'.op \in {"ProcessDone", "ProcessFailed"}
            => spectrumSnapshotsRef' = spectrumSnapshotsRef]_vars

\* a burst with sound and a successful draw has been turned down with 50
\* snapshots stored, and the 50 are those captured first
C35_Witness ==
    /\ hist.op = "OnAudioProcess"
    /\ hist.atCap
    /\ hist.refused
    /\ Len(spectrumSnapshotsRef) = SnapshotCap
    /\ spectrumSnapshotsRef = hist.captured
    /\ \E i, j \in 1..Len(spectrumSnapshotsRef) :
            spectrumSnapshotsRef[i] # spectrumSnapshotsRef[j]

\* the amplitude of the samples of the burst that arrived last
LastBurstAmp(h) == h.stream[Len(h.stream)].amp

\* C36: a burst adds a snapshot only if one of its samples exceeds 0.01 in
\* absolute value; a burst whose samples are all within 0.01 leaves the
\* collection unchanged whatever the random draw and the snapshot count.
C36_QuietBurstNoSnapshot ==
    [][hist'.op = "OnAudioProcess"
            => /\ Abs(LastBurstAmp(hist')) <= SoundThreshold
                    => spectrumSnapshotsRef' = spectrumSnapshotsRef
               /\ spectrumSnapshotsRef' # spectrumSnapshotsRef
                    => Abs(LastBurstAmp(hist')) > SoundThreshold]_vars

\* a burst of samples at the threshold has arrived, a successful draw has been
\* turned down, and the snapshots stored are those of the bursts with sound
C36_Witness ==
    /\ hist.op = "OnAudioProcess"
    /\ hist.refused
    /\ Abs(LastBurstAmp(hist)) = SoundThreshold
    /\ analyserRef
    /\ Len(spectrumSnapshotsRef) >= 1
    /\ spectrumSnapshotsRef = hist.captured

====
